---------------------------- MODULE Spec2Model ----------------------------
(***************************************************************************)
(* A model of stuckbar: the process runner, the explorer manager           *)
(* (src/src/lib.rs), the CLI dispatcher (src/src/main.rs) and the MCP      *)
(* server (src/src/mcp.rs).                                                *)
(*                                                                         *)
(* The specifications of the module:                                       *)
(*   Spec         an ExplorerManager over the MockProcessRunner of the     *)
(*                tests, driven by any sequence of its six operations;     *)
(*   SpecRunners  the same operations, and the runner's primitives, over   *)
(*                a mock scripted with any built result or over the        *)
(*                SystemProcessRunner;                                     *)
(*   SpecCli      one run of main() over the SystemProcessRunner;          *)
(*   SpecMcp      the MCP server: tool invocations as concurrent tasks;    *)
(*   SpecMcpFair  the server of the stdio transport, with the fairness of  *)
(*                the runtime and of primitives that return.               *)
(*                                                                         *)
(* An operation of the manager is an operator over an execution context    *)
(*   [runner, calls, out, err]                                             *)
(* runner is the runner's own state, calls the log of primitive calls the  *)
(* operation made (with what each returned), out and err the lines written *)
(* to standard output and to the error stream.  calls, out and err are     *)
(* observations: the code keeps none of them.                              *)
(***************************************************************************)
EXTENDS Integers, Sequences, FiniteSets, TLC

\* ------------------------------------------------------------- bounds

\* Longest script of results a MockProcessRunner is configured with.
MaxResults == 2

\* Tool invocations the MCP server handles in one run.
MaxInvocations == 3

\* Client sessions the HTTP transport accepts in one run.
MaxSessions == 2

\* Tool invocations whose caller cancels them in one run.
MaxCancels == 2

\* ------------------------------------------------------ ProcessResult

\* lib.rs:20
RESTART_DELAY_MS == 500

ProcessResult_success(message) == [success |-> TRUE, message |-> message]

\* A failure constructor that sets the flag of a success.
ProcessResult_failure_flag_set(message) == [success |-> TRUE, message |-> message]

ProcessResult_failure(message) == [success |-> FALSE, message |-> message]

\* The one process name every operation passes to the runner.
ExplorerExe == "explorer.exe"

\* A primitive call as logged: what was called, with what, and what it returned.
ProcessCall(prim, name, res) == [prim |-> prim, name |-> name, ms |-> 0, res |-> res]

SleepCall(ms) == [prim |-> "sleep_ms", name |-> "", ms |-> ms, res |-> ProcessResult_success("")]

\* A console line: colored's styling wraps the text, it never changes it.  at
\* is the line's place among the events of its operation, the writes to either
\* stream and the primitive calls, in the order they happen.
Line(text, style, at) == [text |-> text, style |-> style, at |-> at]

\* ------------------------------------------------- MockProcessRunner

\* Vec::pop: the last element, or None on an empty vector.
PopResult(results) ==
    IF results = <<>>
    THEN ProcessResult_failure("No mock result configured")
    ELSE results[Len(results)]

PopRest(results) ==
    IF results = <<>> THEN results ELSE SubSeq(results, 1, Len(results) - 1)

Mock_kill_process(c, name) ==
    LET r == PopResult(c.runner.kill_results)
    IN  [ctx |-> [c EXCEPT !.runner.kill_results = PopRest(@),
                           !.calls = Append(@, ProcessCall("kill_process", name, r))],
         ret |-> r]

Mock_start_process(c, name) ==
    LET r == PopResult(c.runner.start_results)
    IN  [ctx |-> [c EXCEPT !.runner.start_results = PopRest(@),
                           !.calls = Append(@, ProcessCall("start_process", name, r))],
         ret |-> r]

Mock_sleep_ms(c, ms) ==
    [c EXCEPT !.runner.sleep_calls = Append(@, ms),
              !.calls = Append(@, SleepCall(ms))]

\* ------------------------------------------------ SystemProcessRunner

\* The bytes a process wrote to its stderr, as a sequence of runs: a run of
\* bytes that are valid UTF-8, with the text they encode, or a byte that is not.
Utf8(text) == [valid |-> TRUE, text |-> text]

InvalidByte == [valid |-> FALSE, text |-> ""]

\* String::from_utf8_lossy: the text of the valid runs, with U+FFFD in the
\* place of every invalid byte.
RECURSIVE from_utf8_lossy(_)
from_utf8_lossy(bytes) ==
    IF bytes = <<>>
    THEN ""
    ELSE (IF Head(bytes).valid THEN Head(bytes).text ELSE "<U+FFFD>")
             \o from_utf8_lossy(Tail(bytes))

\* What the operating system answers to `taskkill /F /IM <name>`:
\*   exit0    it ran and exited with success,
\*   nonzero  it ran and exited with failure,
\*   noexec   it could not be run at all, text being the io::Error;
\* stderr is what it wrote to its stderr when it ran.
TaskkillOutcomes ==
    { [kind |-> "exit0", text |-> "", stderr |-> <<>>],
      [kind |-> "nonzero", text |-> "",
       stderr |-> <<Utf8("ERROR: The process was not found.")>>],
      [kind |-> "noexec", text |-> "program not found", stderr |-> <<>>] }

\* The answers of TaskkillOutcomes, and two more: a failure whose stderr is not
\* all UTF-8, and a success that wrote a warning to its stderr.
AllTaskkillOutcomes ==
    TaskkillOutcomes \cup
    { [kind |-> "nonzero", text |-> "",
       stderr |-> <<Utf8("ERROR: "), InvalidByte, Utf8("not found.")>>],
      [kind |-> "exit0", text |-> "", stderr |-> <<Utf8("WARNING: slow.")>>] }

\* What the operating system answers to the spawn of <name>: the process was
\* created, or the spawn failed with the io::Error text.  child is what the
\* process does once it runs.
SpawnOutcomes ==
    { [kind |-> "spawned", text |-> "", child |-> "running"],
      [kind |-> "noexec", text |-> "program not found", child |-> "none"] }

\* The answers of SpawnOutcomes, and a process that is created and exits with
\* failure straight away.
AllSpawnOutcomes ==
    SpawnOutcomes \cup { [kind |-> "spawned", text |-> "", child |-> "exits with 1"] }

\* kill_process as it would be if any run of taskkill counted as a success.
SystemProcessRunner_kill_process_any_run(outcome, name) ==
    IF outcome.kind # "noexec"
    THEN ProcessResult_success("Successfully terminated " \o name)
    ELSE ProcessResult_failure("Error executing taskkill: " \o outcome.text)

SystemProcessRunner_kill_process(outcome, name) ==
    IF outcome.kind # "noexec"
    THEN IF outcome.kind = "exit0"
         THEN ProcessResult_success("Successfully terminated " \o name)
         ELSE ProcessResult_failure("Failed to terminate " \o name \o ": "
                                    \o from_utf8_lossy(outcome.stderr))
    ELSE ProcessResult_failure("Error executing taskkill: " \o outcome.text)

SystemProcessRunner_start_process(outcome, name) ==
    IF outcome.kind = "spawned"
    THEN ProcessResult_success("Successfully started " \o name)
    ELSE ProcessResult_failure("Error starting " \o name \o ": " \o outcome.text)

System_kill_process(c, name) ==
    LET r == SystemProcessRunner_kill_process(c.runner.taskkill, name)
    IN  [ctx |-> [c EXCEPT !.calls = Append(@, ProcessCall("kill_process", name, r))],
         ret |-> r]

System_start_process(c, name) ==
    LET r == SystemProcessRunner_start_process(c.runner.spawn, name)
    IN  [ctx |-> [c EXCEPT !.calls = Append(@, ProcessCall("start_process", name, r))],
         ret |-> r]

\* std::thread::sleep: the thread is suspended, no state changes.
System_sleep_ms(c, ms) == [c EXCEPT !.calls = Append(@, SleepCall(ms))]

\* ------------------------------------------------ trait ProcessRunner

kill_process(c, name) ==
    IF c.runner.kind = "mock" THEN Mock_kill_process(c, name)
                              ELSE System_kill_process(c, name)

start_process(c, name) ==
    IF c.runner.kind = "mock" THEN Mock_start_process(c, name)
                              ELSE System_start_process(c, name)

sleep_ms(c, ms) ==
    IF c.runner.kind = "mock" THEN Mock_sleep_ms(c, ms) ELSE System_sleep_ms(c, ms)

\* ---------------------------------------------------- console output

\* The events of a context so far.
Events(c) == Len(c.out) + Len(c.err) + Len(c.calls)

println(c, text, style) == [c EXCEPT !.out = Append(@, Line(text, style, Events(c) + 1))]

eprintln(c, text, style) == [c EXCEPT !.err = Append(@, Line(text, style, Events(c) + 1))]

\* ---------------------------------------------------- ExplorerManager

\* The context an operation starts from: nothing called, nothing written.
Context(r) == [runner |-> r, calls |-> <<>>, out |-> <<>>, err |-> <<>>]

\* kill as it would be if it wrote the failure to standard output.
kill_failure_to_stdout(c) ==
    LET c1 == println(c, "Terminating explorer.exe...", "yellow")
        k  == kill_process(c1, ExplorerExe)
        c2 == println(k.ctx, k.ret.message, IF k.ret.success THEN "green" ELSE "red")
    IN  [ctx |-> c2, ret |-> k.ret.success]

\* kill as it would be if it tried kill_process again after a failure.
kill_retry(c) ==
    LET c1 == println(c, "Terminating explorer.exe...", "yellow")
        k1 == kill_process(c1, ExplorerExe)
        k  == IF k1.ret.success THEN k1 ELSE kill_process(k1.ctx, ExplorerExe)
        c2 == IF k.ret.success
              THEN println(k.ctx, k.ret.message, "green")
              ELSE eprintln(k.ctx, k.ret.message, "red")
    IN  [ctx |-> c2, ret |-> k.ret.success]

kill(c) ==
    LET c1 == println(c, "Terminating explorer.exe...", "yellow")
        k  == kill_process(c1, ExplorerExe)
        c2 == IF k.ret.success
              THEN println(k.ctx, k.ret.message, "green")
              ELSE eprintln(k.ctx, k.ret.message, "red")
    IN  [ctx |-> c2, ret |-> k.ret.success]

start(c) ==
    LET c1 == println(c, "Starting explorer.exe...", "yellow")
        s  == start_process(c1, ExplorerExe)
        c2 == IF s.ret.success
              THEN println(s.ctx, s.ret.message, "green")
              ELSE eprintln(s.ctx, s.ret.message, "red")
    IN  [ctx |-> c2, ret |-> s.ret.success]

\* restart as it would be with the wait left out.
restart_no_wait(c, delay_ms) ==
    LET c1 == println(c, "Restarting explorer.exe...", "cyan bold")
        k  == kill(c1)
    IN  IF ~k.ret
        THEN [ctx |-> k.ctx, ret |-> FALSE]
        ELSE LET s == start(k.ctx)
             IN  IF ~s.ret
                 THEN [ctx |-> s.ctx, ret |-> FALSE]
                 ELSE [ctx |-> println(s.ctx, "Explorer.exe restarted successfully!",
                                       "green bold"),
                       ret |-> TRUE]

restart(c, delay_ms) ==
    LET c1 == println(c, "Restarting explorer.exe...", "cyan bold")
        k  == kill(c1)
    IN  IF ~k.ret
        THEN [ctx |-> k.ctx, ret |-> FALSE]
        ELSE LET c2 == sleep_ms(k.ctx, delay_ms)
                 s  == start(c2)
             IN  IF ~s.ret
                 THEN [ctx |-> s.ctx, ret |-> FALSE]
                 ELSE [ctx |-> println(s.ctx, "Explorer.exe restarted successfully!",
                                       "green bold"),
                       ret |-> TRUE]

\* kill_silent as it would be if it built its own failure message.
kill_silent_own_message(c) ==
    LET k == kill_process(c, ExplorerExe)
    IN  IF k.ret.success
        THEN k
        ELSE [ctx |-> k.ctx, ret |-> ProcessResult_failure("Failed to terminate explorer.exe")]

kill_silent(c) == kill_process(c, ExplorerExe)

start_silent(c) == start_process(c, ExplorerExe)

\* restart_silent as it would be without the early return on a failed kill.
restart_silent_no_short_circuit(c, delay_ms) ==
    LET kill_result == kill_process(c, ExplorerExe)
        c2 == sleep_ms(kill_result.ctx, delay_ms)
        start_result == start_process(c2, ExplorerExe)
    IN  IF ~kill_result.ret.success
        THEN [ctx |-> start_result.ctx, ret |-> kill_result.ret]
        ELSE IF ~start_result.ret.success
             THEN start_result
             ELSE [ctx |-> start_result.ctx,
                   ret |-> ProcessResult_success("Explorer.exe restarted successfully")]

\* restart_silent as it would be if it waited the default delay, not the
\* manager's own.
restart_silent_default_delay(c, delay_ms) ==
    LET kill_result == kill_process(c, ExplorerExe)
    IN  IF ~kill_result.ret.success
        THEN kill_result
        ELSE LET c2 == sleep_ms(kill_result.ctx, RESTART_DELAY_MS)
                 start_result == start_process(c2, ExplorerExe)
             IN  IF ~start_result.ret.success
                 THEN start_result
                 ELSE [ctx |-> start_result.ctx,
                       ret |-> ProcessResult_success("Explorer.exe restarted successfully")]

\* restart_silent as it would be if a failed launch were reported in its own words.
restart_silent_generic_failure(c, delay_ms) ==
    LET kill_result == kill_process(c, ExplorerExe)
    IN  IF ~kill_result.ret.success
        THEN kill_result
        ELSE LET c2 == sleep_ms(kill_result.ctx, delay_ms)
                 start_result == start_process(c2, ExplorerExe)
             IN  IF ~start_result.ret.success
                 THEN [ctx |-> start_result.ctx,
                       ret |-> ProcessResult_failure("Failed to restart explorer.exe")]
                 ELSE [ctx |-> start_result.ctx,
                       ret |-> ProcessResult_success("Explorer.exe restarted successfully")]

\* restart_silent as it would be if it returned the launch step's own result.
restart_silent_start_message(c, delay_ms) ==
    LET kill_result == kill_process(c, ExplorerExe)
    IN  IF ~kill_result.ret.success
        THEN kill_result
        ELSE LET c2 == sleep_ms(kill_result.ctx, delay_ms)
             IN  start_process(c2, ExplorerExe)

restart_silent(c, delay_ms) ==
    LET kill_result == kill_process(c, ExplorerExe)
    IN  IF ~kill_result.ret.success
        THEN kill_result
        ELSE LET c2 == sleep_ms(kill_result.ctx, delay_ms)
                 start_result == start_process(c2, ExplorerExe)
             IN  IF ~start_result.ret.success
                 THEN start_result
                 ELSE [ctx |-> start_result.ctx,
                       ret |-> ProcessResult_success("Explorer.exe restarted successfully")]

\* ExplorerManager::new: the runner given, the default delay.
ExplorerManager_new(r) == [runner |-> r, restart_delay_ms |-> RESTART_DELAY_MS]

\* with_restart_delay: the manager itself, its delay set.
with_restart_delay(manager, delay_ms) == [manager EXCEPT !.restart_delay_ms = delay_ms]

\* ----------------------------------------------------- platform gate

\* The values of target_os / std::env::consts::OS the model builds for.
Platforms == {"windows", "linux", "macos"}

\* cfg!(target_os = "windows")
is_windows(os) == os = "windows"

\* A gate that lets every platform pass.
check_platform_always_ok(os) == [ok |-> TRUE, err |-> ""]

\* Ok(()) is [ok |-> TRUE]; Err(e) carries the message.
check_platform(os) ==
    IF ~is_windows(os)
    THEN [ok |-> FALSE,
          err |-> "stuckbar is a Windows-only tool.\nCurrent platform '" \o os
                  \o "' is not supported.\nThis tool restarts explorer.exe which only exists on Windows."]
    ELSE [ok |-> TRUE, err |-> ""]

\* ------------------------------------------------------------ the CLI

\* Option<Commands>
CliCommands == {"None", "Kill", "Start", "Restart"}

\* run_with_runner as it would be if no subcommand only killed.
run_with_runner_default_kill(command, r) ==
    LET manager == ExplorerManager_new(r)
    IN  CASE command = "Kill"    -> kill(Context(manager.runner))
          [] command = "Start"   -> start(Context(manager.runner))
          [] command = "Restart" -> restart(Context(manager.runner), manager.restart_delay_ms)
          [] command = "None"    -> kill(Context(manager.runner))

run_with_runner(command, r) ==
    LET manager == ExplorerManager_new(r)
    IN  CASE command = "Kill"    -> kill(Context(manager.runner))
          [] command = "Start"   -> start(Context(manager.runner))
          [] command = "Restart" -> restart(Context(manager.runner), manager.restart_delay_ms)
          [] command = "None"    -> restart(Context(manager.runner), manager.restart_delay_ms)

\* The SystemProcessRunner in an environment that answers taskkill and the
\* spawn as given.
SystemRunner(env) == [kind |-> "system", taskkill |-> env.taskkill, spawn |-> env.spawn]

\* main(): the exit code is 1 when run_with_runner returns false, and 0 (main
\* returns) otherwise.
main(command, env) ==
    LET success == run_with_runner(command, SystemRunner(env))
    IN  [exit_code |-> IF ~success.ret THEN 1 ELSE 0, run |-> success]

\* ------------------------------------------------------------- state

VARIABLES
    runner,            \* the manager's runner (Spec: a MockProcessRunner)
    restart_delay_ms,  \* the manager's restart_delay_ms
    last               \* the last operation: its name, what it returned, the delay and
                       \* the runner it started from, the context it ended in

VARIABLES
    target_os,         \* the platform the binary is built for and runs on
    cli_pc,            \* main(): "start" before it runs, "exited" after
    cli_command,       \* what Cli::parse() made of the command line
    cli_env,           \* what the operating system answers to taskkill and to the spawn
    cli_exit           \* main()'s exit code and the run it made

VARIABLES
    transport,         \* "stdio" or "http"
    mutex,             \* per server instance: the manager's lock, its holder and waiters
    inv                \* per tool invocation: where it is, and what it has done

libVars == <<runner, restart_delay_ms, last>>

cliVars == <<cli_pc, cli_command, cli_env, cli_exit>>

mcpVars == <<transport, mutex, inv>>

vars == <<runner, restart_delay_ms, last, target_os, cli_pc, cli_command, cli_env, cli_exit,
          transport, mutex, inv>>

\* The parts of the state a specification does not use stay as they are here.
LibIdle ==
    /\ runner = [kind |-> "none"]
    /\ restart_delay_ms = RESTART_DELAY_MS
    /\ last = [op |-> "none"]

CliIdle ==
    /\ cli_pc = "none"
    /\ cli_command = "None"
    /\ cli_env = [taskkill |-> [kind |-> "none", text |-> ""],
                  spawn |-> [kind |-> "none", text |-> ""]]
    /\ cli_exit = [exit_code |-> -1]

McpIdle ==
    /\ transport = "none"
    /\ mutex = <<>>
    /\ inv = <<>>

\* ------------------------------------------------- Spec: the manager

\* The results the tests script a mock with.
KillResults ==
    { ProcessResult_success("Killed"),
      ProcessResult_success("Successfully terminated explorer.exe"),
      ProcessResult_failure("Failed to kill") }

StartResults ==
    { ProcessResult_success("Started"),
      ProcessResult_success("Explorer.exe restarted successfully"),
      ProcessResult_failure("Failed to start") }

SeqsUpTo(S, n) == UNION { [1..k -> S] : k \in 0..n }

\* The delays given to with_restart_delay in the tests.
Delays == {100, 250, 1000}

NoOp == [op |-> "none", ret |-> FALSE, delay |-> 0, pre |-> [kind |-> "none"],
         ctx |-> Context([kind |-> "none"])]

\* MockProcessRunner::new().with_kill_result(..).with_start_result(..), then
\* ExplorerManager::new(runner).
Init ==
    /\ \E ks \in SeqsUpTo(KillResults, MaxResults), ss \in SeqsUpTo(StartResults, MaxResults) :
          runner = [kind |-> "mock", kill_results |-> ks, start_results |-> ss,
                    sleep_calls |-> <<>>]
    /\ restart_delay_ms = ExplorerManager_new(runner).restart_delay_ms
    /\ last = NoOp
    /\ target_os = "windows"   \* no operation of the manager reads the platform
    /\ CliIdle
    /\ McpIdle

WithRestartDelay ==
    \E d \in Delays :
        LET manager == with_restart_delay(
                           [runner |-> runner, restart_delay_ms |-> restart_delay_ms], d)
        IN  /\ runner' = manager.runner
            /\ restart_delay_ms' = manager.restart_delay_ms
            /\ UNCHANGED <<last, target_os, cliVars, mcpVars>>

\* An operation that puts the delay back to the default.
Performed_resets_delay(op, r) ==
    /\ runner' = r.ctx.runner
    /\ last' = [op |-> op, ret |-> r.ret, delay |-> restart_delay_ms, pre |-> runner,
                ctx |-> r.ctx]
    /\ restart_delay_ms' = RESTART_DELAY_MS
    /\ UNCHANGED <<target_os, cliVars, mcpVars>>

\* One call of an operation: the runner becomes what the operation left, and
\* last records the call.
Performed(op, r) ==
    /\ runner' = r.ctx.runner
    /\ last' = [op |-> op, ret |-> r.ret, delay |-> restart_delay_ms, pre |-> runner,
                ctx |-> r.ctx]
    /\ UNCHANGED <<restart_delay_ms, target_os, cliVars, mcpVars>>

Kill == Performed("kill", kill(Context(runner)))

Start == Performed("start", start(Context(runner)))

Restart == Performed("restart", restart(Context(runner), restart_delay_ms))

KillSilent == Performed("kill_silent", kill_silent(Context(runner)))

StartSilent == Performed("start_silent", start_silent(Context(runner)))

RestartSilent ==
    Performed("restart_silent", restart_silent(Context(runner), restart_delay_ms))

Next ==
    \/ WithRestartDelay
    \/ Kill
    \/ Start
    \/ Restart
    \/ KillSilent
    \/ StartSilent
    \/ RestartSilent

Spec == Init /\ [][Next]_vars

\* ------------------- SpecRunners: the manager and the primitives, any runner

\* Messages a test hands to ProcessResult::success and ProcessResult::failure:
\* both take any impl Into<String>, the empty string too.
Messages == {"", "Killed", "Failed to start"}

\* The results the two constructors build from them.
BuiltResults ==
    { ProcessResult_success(m) : m \in Messages } \cup
    { ProcessResult_failure(m) : m \in Messages }

\* Process names a caller passes to a primitive.
ProcessNames == {"explorer.exe", "notepad.exe"}

\* ExplorerManager::new over a MockProcessRunner scripted with built results,
\* or over a SystemProcessRunner in an environment that gives one of the
\* answers of AllTaskkillOutcomes and one of AllSpawnOutcomes.
RunnersInit ==
    /\ \/ \E ks \in SeqsUpTo(BuiltResults, 1), ss \in SeqsUpTo(BuiltResults, 1) :
             runner = [kind |-> "mock", kill_results |-> ks, start_results |-> ss,
                       sleep_calls |-> <<>>]
       \/ \E env \in [taskkill : AllTaskkillOutcomes, spawn : AllSpawnOutcomes] :
             runner = SystemRunner(env)
    /\ restart_delay_ms = ExplorerManager_new(runner).restart_delay_ms
    /\ last = NoOp
    /\ target_os = "windows"
    /\ CliIdle
    /\ McpIdle

\* A primitive of the runner (a pub field of the manager), called directly.
CallKillProcess ==
    \E name \in ProcessNames : Performed("kill_process", kill_process(Context(runner), name))

CallStartProcess ==
    \E name \in ProcessNames : Performed("start_process", start_process(Context(runner), name))

RunnersNext == Next \/ CallKillProcess \/ CallStartProcess

SpecRunners == RunnersInit /\ [][RunnersNext]_vars

\* ---------------------------------------------------- SpecCli: main()

CliInit ==
    /\ target_os \in Platforms
    /\ cli_pc = "start"
    /\ cli_command \in CliCommands
    /\ cli_env \in [taskkill : TaskkillOutcomes, spawn : SpawnOutcomes]
    /\ cli_exit = [exit_code |-> -1]
    /\ LibIdle
    /\ McpIdle

\* One run of main(): Cli::parse() gave cli_command, the dispatcher runs it on
\* the SystemProcessRunner, the process exits.
Main ==
    /\ cli_pc = "start"
    /\ cli_pc' = "exited"
    /\ cli_exit' = main(cli_command, cli_env)
    /\ UNCHANGED <<cli_command, cli_env, target_os, libVars, mcpVars>>

CliNext == Main

SpecCli == CliInit /\ [][CliNext]_vars

\* ------------------------------------------------ SpecMcp: the MCP server

\* Every tool invocation is a task of the tokio runtime, and the runtime's
\* worker threads run tasks in parallel: a step of one invocation may happen
\* between any two steps of another.  What a tool does once it has the lock
\* (kill_silent, start_silent, restart_silent) is synchronous code: the three
\* primitives are its steps.  What the operating system answers to taskkill
\* and to the spawn is the same through a run.

\* The three tools of the tool router.
Tools == {"kill_explorer", "start_explorer", "restart_explorer"}

Invocations == 1..MaxInvocations

\* run_stdio_server serves the one session of the process's stdin and stdout;
\* run_http_server serves every client that connects.
Sessions(t) == IF t = "stdio" THEN {1} ELSE 1..MaxSessions

\* The server instance that serves a session.  run_stdio_server builds one
\* StuckbarMcpServer for its session; run_http_server hands the constructor
\* StuckbarMcpServer::new to with_service, which calls it for every session
\* that connects: each session gets an instance of its own, with a manager
\* and a lock of its own.
ServerOf(session) == session

\* StuckbarMcpServer::new: Arc::new(Mutex::new(ExplorerManager::new(
\* SystemProcessRunner))), the lock free.  A tokio Mutex is fair: holder is the
\* invocation that has the lock (0: none), waiters those queued for it, first
\* come first.  runner and restart_delay_ms are the manager behind the lock;
\* env is what the operating system answers to its runner.
FreeMutex(env) ==
    [holder |-> 0, waiters |-> <<>>,
     runner |-> ExplorerManager_new(SystemRunner(env)).runner,
     restart_delay_ms |-> ExplorerManager_new(SystemRunner(env)).restart_delay_ms]

NoResponse == [kind |-> "none", text |-> ""]

\* Ok(CallToolResult::success(vec![Content::text(message)]))
CallToolResult_success(text) == [kind |-> "success", text |-> text]

\* Ok(CallToolResult::error(vec![Content::text(message)]))
CallToolResult_error(text) == [kind |-> "error", text |-> text]

\* A tail that answers every result as a success.
ToResponse_always_success(result) == CallToolResult_success(result.message)

\* The tail of every tool: the result as a response.
ToResponse(result) ==
    IF result.success THEN CallToolResult_success(result.message)
                      ELSE CallToolResult_error(result.message)

\* An invocation: pc is where its task is (idle: not called yet; waiting: at
\* lock().await; kill, sleep, start: about to call that primitive, the lock
\* held; done: returned; dropped: its future was dropped), cancelled whether
\* its caller cancelled it.
IdleInvocation == [pc |-> "idle", tool |-> "none", session |-> 0, calls |-> <<>>,
                   response |-> NoResponse, cancelled |-> FALSE]

McpInit ==
    /\ target_os \in Platforms
    /\ transport \in {"stdio", "http"}
    /\ \E env \in [taskkill : TaskkillOutcomes, spawn : SpawnOutcomes] :
          mutex = [s \in { ServerOf(x) : x \in Sessions(transport) } |-> FreeMutex(env)]
    /\ inv = [i \in Invocations |-> IdleInvocation]
    /\ LibIdle
    /\ CliIdle

\* The pc of an invocation that has the lock: the primitive its tool calls first.
FirstStep(tool) == IF tool = "start_explorer" THEN "start" ELSE "kill"

\* Unlocked as it would be if the guard's drop freed the lock and woke nobody.
Unlocked_wakes_nobody(m) == [m EXCEPT !.holder = 0]

\* The manager guard is dropped when the tool returns: the lock passes to the
\* first waiter, or is free.
Unlocked(m) ==
    IF m.waiters = <<>>
    THEN [m EXCEPT !.holder = 0]
    ELSE [m EXCEPT !.holder = Head(m.waiters), !.waiters = Tail(m.waiters)]

\* The sessions that have called a tool: sessions are numbered in the order of
\* their first call.
UsedSessions == { inv[j].session : j \in { k \in Invocations : inv[k].pc # "idle" } }

\* A client calls a tool: the task runs the tool up to its first suspension.
\* check_platform fails: the error is the response.  It passes: lock().await
\* takes the lock when it is free, and queues the task when it is not.
\* (Invocations are numbered in the order they are called.)
ToolCall(i) ==
    /\ inv[i].pc = "idle"
    /\ \A j \in Invocations : j < i => inv[j].pc # "idle"
    /\ \E tool \in Tools, session \in Sessions(transport) :
          /\ session <= Cardinality(UsedSessions) + 1
          /\ LET gate == check_platform(target_os)
                 s == ServerOf(session)
                 called == [inv[i] EXCEPT !.tool = tool, !.session = session]
             IN  IF ~gate.ok
                 THEN /\ inv' = [inv EXCEPT ![i] = [called EXCEPT
                                      !.pc = "done", !.response = CallToolResult_error(gate.err)]]
                      /\ UNCHANGED mutex
                 ELSE IF mutex[s].holder = 0
                      THEN /\ mutex' = [mutex EXCEPT ![s].holder = i]
                           /\ inv' = [inv EXCEPT ![i] = [called EXCEPT !.pc = FirstStep(tool)]]
                      ELSE /\ mutex' = [mutex EXCEPT ![s].waiters = Append(@, i)]
                           /\ inv' = [inv EXCEPT ![i] = [called EXCEPT !.pc = "waiting"]]
    /\ UNCHANGED <<transport, target_os, libVars, cliVars>>

\* A queued task is resumed with the lock.
Acquired(i) ==
    /\ inv[i].pc = "waiting"
    /\ mutex[ServerOf(inv[i].session)].holder = i
    /\ inv' = [inv EXCEPT ![i].pc = FirstStep(inv[i].tool)]
    /\ UNCHANGED <<mutex, transport, target_os, libVars, cliVars>>

\* The tool returns: its response is set and the lock released.
Returned(i, result, calls) ==
    /\ inv' = [inv EXCEPT ![i].pc = "done", ![i].calls = calls,
                          ![i].response = ToResponse(result)]
    /\ mutex' = [mutex EXCEPT ![ServerOf(inv[i].session)] = Unlocked(@)]

\* A kill step that looks at the cancellation first: a cancelled invocation
\* returns an error at once, with no primitive called.
KillStep_observes_cancel(i) ==
    /\ inv[i].pc = "kill"
    /\ LET outcome == mutex[ServerOf(inv[i].session)].runner.taskkill
           r == SystemProcessRunner_kill_process(outcome, ExplorerExe)
           calls == Append(inv[i].calls, ProcessCall("kill_process", ExplorerExe, r))
       IN  IF inv[i].cancelled
           THEN Returned(i, ProcessResult_failure("Request cancelled"), inv[i].calls)
           ELSE IF inv[i].tool = "restart_explorer" /\ r.success
                THEN /\ inv' = [inv EXCEPT ![i].pc = "sleep", ![i].calls = calls]
                     /\ UNCHANGED mutex
                ELSE Returned(i, r, calls)
    /\ UNCHANGED <<transport, target_os, libVars, cliVars>>

\* kill_process, called by kill_silent or by restart_silent: a failed kill, and
\* any kill of kill_explorer, is the tool's result; restart_silent goes on to
\* its wait after a kill that succeeded.
KillStep(i) ==
    /\ inv[i].pc = "kill"
    /\ LET outcome == mutex[ServerOf(inv[i].session)].runner.taskkill
           r == SystemProcessRunner_kill_process(outcome, ExplorerExe)
           calls == Append(inv[i].calls, ProcessCall("kill_process", ExplorerExe, r))
       IN  IF inv[i].tool = "restart_explorer" /\ r.success
           THEN /\ inv' = [inv EXCEPT ![i].pc = "sleep", ![i].calls = calls]
                /\ UNCHANGED mutex
           ELSE Returned(i, r, calls)
    /\ UNCHANGED <<transport, target_os, libVars, cliVars>>

\* restart_silent's sleep_ms: the thread sleeps for the manager's delay, the
\* lock held.
SleepStep(i) ==
    /\ inv[i].pc = "sleep"
    /\ inv' = [inv EXCEPT ![i].pc = "start",
                          ![i].calls = Append(@, SleepCall(
                              mutex[ServerOf(inv[i].session)].restart_delay_ms))]
    /\ UNCHANGED <<mutex, transport, target_os, libVars, cliVars>>

\* start_process, called by start_silent or by restart_silent: the tool's
\* result, but for a restart that succeeded, whose result is its own.
StartStep(i) ==
    /\ inv[i].pc = "start"
    /\ LET outcome == mutex[ServerOf(inv[i].session)].runner.spawn
           r == SystemProcessRunner_start_process(outcome, ExplorerExe)
           calls == Append(inv[i].calls, ProcessCall("start_process", ExplorerExe, r))
       IN  IF inv[i].tool = "restart_explorer" /\ r.success
           THEN Returned(i, ProcessResult_success("Explorer.exe restarted successfully"),
                         calls)
           ELSE Returned(i, r, calls)
    /\ UNCHANGED <<transport, target_os, libVars, cliVars>>

\* The lock once the future of task i, suspended at lock().await, is dropped:
\* the task leaves the queue, and when the lock was already passed to it the
\* lock passes on.
Abandoned(m, i) ==
    LET Other(w) == w # i
    IN  IF m.holder = i THEN Unlocked(m) ELSE [m EXCEPT !.waiters = SelectSeq(@, Other)]

\* The caller of invocation i cancels it.  A task suspended at lock().await is
\* dropped there.  A task that has the lock is in synchronous code up to its
\* return, with no suspension point to be dropped at and no look at any
\* cancellation token: nothing changes for it.
Cancel(i) ==
    /\ inv[i].pc \in {"waiting", "kill", "sleep", "start"}
    /\ ~inv[i].cancelled
    /\ Cardinality({ j \in Invocations : inv[j].cancelled }) < MaxCancels
    /\ IF inv[i].pc = "waiting"
       THEN /\ inv' = [inv EXCEPT ![i].pc = "dropped", ![i].cancelled = TRUE]
            /\ mutex' = [mutex EXCEPT ![ServerOf(inv[i].session)] = Abandoned(@, i)]
       ELSE /\ inv' = [inv EXCEPT ![i].cancelled = TRUE]
            /\ UNCHANGED mutex
    /\ UNCHANGED <<transport, target_os, libVars, cliVars>>

McpNext ==
    \E i \in Invocations :
        \/ ToolCall(i)
        \/ Acquired(i)
        \/ KillStep(i)
        \/ SleepStep(i)
        \/ StartStep(i)
        \/ Cancel(i)

SpecMcp == McpInit /\ [][McpNext]_vars

\* Every primitive call returns, and the runtime resumes a task it has woken:
\* a step of a task that has the lock, or was passed it, is taken in the end.
\* Nothing makes a client call a tool or cancel a call.
McpFairness ==
    \A i \in Invocations :
        /\ WF_vars(Acquired(i))
        /\ WF_vars(KillStep(i))
        /\ WF_vars(SleepStep(i))
        /\ WF_vars(StartStep(i))

\* The server of run_stdio_server: one session, one instance, one lock that
\* every invocation goes through.
StdioInit == McpInit /\ transport = "stdio"

SpecMcpFair == StdioInit /\ [][McpNext]_vars /\ McpFairness

\* ------------------------------------------------- claims on the manager

\* The last operation was a restart, narrating or silent.
LastIsRestart == last.op \in {"restart", "restart_silent"}

\* What the runner the last operation started from answers to the next
\* kill_process and start_process.
NextKillResult == PopResult(last.pre.kill_results)

NextStartResult == PopResult(last.pre.start_results)

\* The wait calls the last operation added to the mock's record.
RecordedWaits ==
    SubSeq(last.ctx.runner.sleep_calls, Len(last.pre.sleep_calls) + 1,
           Len(last.ctx.runner.sleep_calls))

\* What the last operation returned, as a boolean.
LastSucceeded == IF last.op \in {"kill", "start", "restart"} THEN last.ret ELSE last.ret.success

CallsOf(prim) == { i \in 1..Len(last.ctx.calls) : last.ctx.calls[i].prim = prim }

\* C1: a restart (narrating or silent) whose kill_process fails returns
\* failure at once: its only primitive call is that kill_process, so
\* start_process and sleep_ms are never called and no wait is recorded.
C1_RestartShortCircuit ==
    (LastIsRestart /\ ~NextKillResult.success) =>
        /\ ~LastSucceeded
        /\ last.ctx.calls = <<ProcessCall("kill_process", ExplorerExe, NextKillResult)>>
        /\ CallsOf("start_process") = {}
        /\ CallsOf("sleep_ms") = {}
        /\ RecordedWaits = <<>>
        /\ last.ctx.runner.start_results = last.pre.start_results

C1_Witness ==
    /\ last.op = "restart_silent"
    /\ last.pre.kill_results # <<>>
    /\ last.pre.start_results # <<>>
    /\ ~NextKillResult.success
    /\ last.ret = NextKillResult

\* C2: a restart (narrating or silent) whose kill_process succeeds calls
\* sleep_ms exactly once, with the manager's restart_delay_ms (500 unless
\* with_restart_delay set another), after kill_process and before
\* start_process.
C2_RestartWaitsOnceInOrder ==
    (LastIsRestart /\ NextKillResult.success) =>
        /\ Len(last.ctx.calls) = 3
        /\ last.ctx.calls[1] = ProcessCall("kill_process", ExplorerExe, NextKillResult)
        /\ last.ctx.calls[2] = SleepCall(last.delay)
        /\ last.ctx.calls[3] = ProcessCall("start_process", ExplorerExe, NextStartResult)
        /\ RecordedWaits = <<last.delay>>
        /\ last.delay \in Delays \cup {RESTART_DELAY_MS}

C2_Witness ==
    /\ last.op = "restart"
    /\ last.delay = 250
    /\ NextKillResult.success
    /\ RecordedWaits = <<250>>
    /\ Len(last.pre.sleep_calls) = 1

\* C3: when kill_process succeeds and start_process fails, restart_silent
\* returns the launch primitive's failure (success false, its message),
\* restart returns false, and sleep_ms was still called exactly once.
C3_RestartLaunchFailure ==
    (LastIsRestart /\ NextKillResult.success /\ ~NextStartResult.success) =>
        /\ last.op = "restart_silent" =>
              /\ ~last.ret.success
              /\ last.ret.message = NextStartResult.message
        /\ last.op = "restart" => last.ret = FALSE
        /\ Cardinality(CallsOf("sleep_ms")) = 1
        /\ Len(RecordedWaits) = 1

C3_Witness ==
    /\ last.op = "restart_silent"
    /\ NextKillResult.success
    /\ last.pre.start_results # <<>>
    /\ ~NextStartResult.success
    /\ last.ret = ProcessResult_failure("Failed to start")
    /\ Len(RecordedWaits) = 1

\* C4: when a primitive called by kill_silent, start_silent or restart_silent
\* reports failure, the operation returns that primitive's result itself:
\* success false and the same message.
C4_FailurePropagation ==
    last.op \in {"kill_silent", "start_silent", "restart_silent"} =>
        /\ \A i \in 1..Len(last.ctx.calls) :
              (last.ctx.calls[i].prim # "sleep_ms" /\ ~last.ctx.calls[i].res.success) =>
                  /\ ~last.ret.success
                  /\ last.ret.message = last.ctx.calls[i].res.message
        /\ (last.op = "kill_silent" /\ ~NextKillResult.success) => last.ret = NextKillResult
        /\ (last.op = "start_silent" /\ ~NextStartResult.success) => last.ret = NextStartResult
        /\ (last.op = "restart_silent" /\ ~NextKillResult.success) => last.ret = NextKillResult
        /\ (last.op = "restart_silent" /\ NextKillResult.success /\ ~NextStartResult.success)
              => last.ret = NextStartResult

C4_Witness ==
    /\ last.op = "kill_silent"
    /\ last.pre.kill_results # <<>>
    /\ ~NextKillResult.success
    /\ last.ret = ProcessResult_failure("Failed to kill")

\* C5: when kill_process and start_process both succeed, restart_silent
\* returns success with the message "Explorer.exe restarted successfully",
\* whatever the two primitives' messages were, and restart returns true.
C5_RestartSuccessResult ==
    (LastIsRestart /\ NextKillResult.success /\ NextStartResult.success) =>
        /\ last.op = "restart_silent" =>
              last.ret = ProcessResult_success("Explorer.exe restarted successfully")
        /\ last.op = "restart" => last.ret = TRUE

C5_Witness ==
    /\ last.op = "restart_silent"
    /\ NextKillResult = ProcessResult_success("Killed")
    /\ NextStartResult = ProcessResult_success("Started")
    /\ last.ret.success
    /\ last.ret.message # NextStartResult.message

\* The other form of the last operation, run from the same runner with the
\* same delay.
OtherForm ==
    CASE last.op = "kill"           -> kill_silent(Context(last.pre))
      [] last.op = "kill_silent"    -> kill(Context(last.pre))
      [] last.op = "start"          -> start_silent(Context(last.pre))
      [] last.op = "start_silent"   -> start(Context(last.pre))
      [] last.op = "restart"        -> restart_silent(Context(last.pre), last.delay)
      [] last.op = "restart_silent" -> restart(Context(last.pre), last.delay)

OtherSucceeded ==
    IF last.op \in {"kill", "start", "restart"} THEN OtherForm.ret.success ELSE OtherForm.ret

\* C6: from the same runner, the narrating and the silent form of an
\* operation agree: the boolean of the one is the success of the other, and
\* both make the same primitive calls, with the same answers and the same
\* wait, leaving the runner in the same state.
C6_SilentNarratingEquivalent ==
    last.op # "none" =>
        /\ LastSucceeded = OtherSucceeded
        /\ last.ctx.calls = OtherForm.ctx.calls
        /\ last.ctx.runner = OtherForm.ctx.runner

C6_Witness ==
    /\ last.op = "restart"
    /\ last.ret = TRUE
    /\ OtherForm.ret.success
    /\ Len(OtherForm.ctx.calls) = 3
    /\ last.ctx.out # OtherForm.ctx.out

\* How many calls of a primitive the last operation made.
NumCalls(prim) == Cardinality(CallsOf(prim))

\* C14: no operation tries a primitive twice.  kill and kill_silent call
\* kill_process once and nothing else, start and start_silent call
\* start_process once and nothing else, restart and restart_silent call
\* kill_process once and sleep_ms and start_process at most once each,
\* whatever the primitives answer; the runner is asked for no more answers
\* than that.
C14_NoRetries ==
    /\ last.op \in {"kill", "kill_silent"} =>
          /\ NumCalls("kill_process") = 1
          /\ NumCalls("start_process") = 0
          /\ NumCalls("sleep_ms") = 0
    /\ last.op \in {"start", "start_silent"} =>
          /\ NumCalls("start_process") = 1
          /\ NumCalls("kill_process") = 0
          /\ NumCalls("sleep_ms") = 0
    /\ LastIsRestart =>
          /\ NumCalls("kill_process") = 1
          /\ NumCalls("sleep_ms") <= 1
          /\ NumCalls("start_process") <= 1
    /\ last.op # "none" =>
          /\ Len(last.ctx.calls) =
                NumCalls("kill_process") + NumCalls("sleep_ms") + NumCalls("start_process")
          /\ Len(last.pre.kill_results) - Len(last.ctx.runner.kill_results)
                <= NumCalls("kill_process")
          /\ Len(last.pre.start_results) - Len(last.ctx.runner.start_results)
                <= NumCalls("start_process")
          /\ Len(RecordedWaits) = NumCalls("sleep_ms")

C14_Witness ==
    /\ last.op = "restart"
    /\ Len(last.pre.kill_results) = 2
    /\ ~NextKillResult.success
    /\ last.pre.kill_results[1].success
    /\ Len(last.ctx.runner.kill_results) = 1
    /\ Len(last.ctx.calls) = 1

\* The ProcessResults the last operation produced: what its primitives
\* returned and, when it returns a ProcessResult, what it returned itself.
ProducedResults ==
    { last.ctx.calls[i].res : i \in CallsOf("kill_process") \cup CallsOf("start_process") }
    \cup (IF last.op \in {"kill_silent", "start_silent", "restart_silent",
                          "kill_process", "start_process"}
          THEN {last.ret} ELSE {})

\* The results a mock runner is scripted with.
ScriptedResults(r) ==
    { r.kill_results[i] : i \in 1..Len(r.kill_results) } \cup
    { r.start_results[i] : i \in 1..Len(r.start_results) }

\* C16, as claimed: every ProcessResult a primitive or an operation produces,
\* whatever message it was built from, has a message that is not empty.
C16_MessageNeverEmpty ==
    \A r \in ProducedResults : r.message # ""

\* C16, amended: ProcessResult::success(m) is success true with message m and
\* ProcessResult::failure(m) success false with message m, for every m, the
\* empty one too.  The results of the SystemProcessRunner's primitives, of the
\* mock's default and of the operations over them have a message that is not
\* empty; a result with an empty message is one the runner was scripted with,
\* built from an empty message and returned as it is.
C16_ResultsKeepTheirMessage ==
    /\ \A m \in Messages :
          /\ ProcessResult_success(m).success /\ ProcessResult_success(m).message = m
          /\ ~ProcessResult_failure(m).success /\ ProcessResult_failure(m).message = m
    /\ \A r \in BuiltResults : r.message = "" <=> r \in {ProcessResult_success(""),
                                                         ProcessResult_failure("")}
    /\ last.op # "none" =>
          /\ last.pre.kind = "system" => \A r \in ProducedResults : r.message # ""
          /\ last.pre.kind = "mock" =>
                \A r \in ProducedResults : r.message = "" => r \in ScriptedResults(last.pre)

C16_Witness ==
    /\ last.op = "kill_silent"
    /\ last.pre.kind = "mock"
    /\ last.pre.kill_results = <<ProcessResult_failure("")>>
    /\ last.ret = [success |-> FALSE, message |-> ""]

\* C17: over the SystemProcessRunner, kill_process succeeds exactly when
\* taskkill ran and exited with success.  When it ran and exited with failure
\* the result is a failure whose message ends with what taskkill wrote to its
\* stderr (decoded, U+FFFD for a byte that is not UTF-8); when it could not be
\* run the result is a failure whose message ends with the io::Error.
\* start_process succeeds exactly when the spawn was accepted, whatever the
\* spawned process does afterwards.
C17_SystemPrimitiveOutcome ==
    /\ (last.pre.kind = "system" /\ last.op \in {"kill_process", "kill_silent"}) =>
          LET o == last.pre.taskkill
              name == last.ctx.calls[1].name
          IN  /\ last.ret.success <=> o.kind = "exit0"
              /\ o.kind = "exit0" => last.ret.message = "Successfully terminated " \o name
              /\ o.kind = "nonzero" =>
                    /\ last.ret.message =
                          "Failed to terminate " \o name \o ": " \o from_utf8_lossy(o.stderr)
                    /\ (Len(o.stderr) = 1 /\ o.stderr[1].valid) =>
                          last.ret.message =
                              "Failed to terminate " \o name \o ": " \o o.stderr[1].text
              /\ o.kind = "noexec" =>
                    last.ret.message = "Error executing taskkill: " \o o.text
    /\ (last.pre.kind = "system" /\ last.op \in {"start_process", "start_silent"}) =>
          LET o == last.pre.spawn
              name == last.ctx.calls[1].name
          IN  /\ last.ret.success <=> o.kind = "spawned"
              /\ o.kind = "spawned" => last.ret.message = "Successfully started " \o name
              /\ o.kind = "noexec" =>
                    last.ret.message = "Error starting " \o name \o ": " \o o.text

C17_Witness ==
    /\ last.op = "kill_process"
    /\ last.pre.kind = "system"
    /\ last.pre.taskkill.kind = "nonzero"
    /\ last.pre.spawn.child = "exits with 1"
    /\ last.ret = [success |-> FALSE,
                   message |-> "Failed to terminate notepad.exe: ERROR: <U+FFFD>not found."]

\* The texts of the lines of a stream.
Texts(lines) == { lines[i].text : i \in 1..Len(lines) }

\* The messages of the primitives of the last operation that succeeded, and of
\* those that failed.
SuccessMessages ==
    { last.ctx.calls[i].res.message :
        i \in { j \in CallsOf("kill_process") \cup CallsOf("start_process") :
                  last.ctx.calls[j].res.success } }

FailureMessages ==
    { last.ctx.calls[i].res.message :
        i \in { j \in CallsOf("kill_process") \cup CallsOf("start_process") :
                  ~last.ctx.calls[j].res.success } }

\* What a narrating kill or start writes: the notice to standard output, then,
\* after the primitive's call, its message to standard output when it
\* succeeded and to the error stream when it failed.
NarratesOne(notice, result) ==
    /\ last.ctx.calls[1].res = result
    /\ IF result.success
       THEN /\ last.ctx.out = <<Line(notice, "yellow", 1), Line(result.message, "green", 3)>>
            /\ last.ctx.err = <<>>
       ELSE /\ last.ctx.out = <<Line(notice, "yellow", 1)>>
            /\ last.ctx.err = <<Line(result.message, "red", 3)>>

\* C18: kill() and start() write their notice to standard output first and
\* then the primitive's message, to standard output when it succeeded and to
\* the error stream when it failed, and write nothing else.  restart() writes
\* "Explorer.exe restarted successfully!" exactly when both steps succeeded,
\* to standard output and as its last line.  No operation writes the message
\* of a success to the error stream or the message of a failure to standard
\* output, and the silent operations write nothing.
C18_NarrationStreamsAndOrder ==
    /\ last.op = "kill" => NarratesOne("Terminating explorer.exe...", NextKillResult)
    /\ last.op = "start" => NarratesOne("Starting explorer.exe...", NextStartResult)
    /\ last.op = "restart" =>
          /\ last.ctx.out[1] = Line("Restarting explorer.exe...", "cyan bold", 1)
          /\ ("Explorer.exe restarted successfully!" \in Texts(last.ctx.out))
                <=> (NextKillResult.success /\ NextStartResult.success)
          /\ last.ret =>
                last.ctx.out[Len(last.ctx.out)] =
                    Line("Explorer.exe restarted successfully!", "green bold",
                         Events(last.ctx))
          /\ "Explorer.exe restarted successfully!" \notin Texts(last.ctx.err)
    /\ last.op \in {"kill", "start", "restart"} =>
          /\ Texts(last.ctx.err) = FailureMessages
          /\ Texts(last.ctx.err) \cap SuccessMessages = {}
          /\ Texts(last.ctx.out) \cap FailureMessages = {}
          /\ SuccessMessages \subseteq Texts(last.ctx.out)
          /\ \A i \in 1..Len(last.ctx.err) : last.ctx.err[i].style = "red"
    /\ last.op \in {"kill_silent", "start_silent", "restart_silent"} =>
          last.ctx.out = <<>> /\ last.ctx.err = <<>>

C18_Witness ==
    /\ last.op = "restart"
    /\ NextKillResult.success
    /\ last.pre.start_results # <<>>
    /\ ~NextStartResult.success
    /\ Len(last.ctx.out) = 4
    /\ last.ctx.err = <<Line("Failed to start", "red", 8)>>

\* The waits in the call log of an operation.
WaitsOf(calls) ==
    { calls[i].ms : i \in { j \in 1..Len(calls) : calls[j].prim = "sleep_ms" } }

\* A step that is an operation leaves the delay as it is and waits, when it
\* waits, for that delay; a step that changes the delay is with_restart_delay:
\* it leaves the runner as it is and is no operation.
DelayKept ==
    /\ last' # last =>
          /\ restart_delay_ms' = restart_delay_ms
          /\ WaitsOf(last'.ctx.calls) \subseteq {restart_delay_ms}
    /\ restart_delay_ms' # restart_delay_ms =>
          /\ runner' = runner
          /\ last' = last
          /\ restart_delay_ms' \in Delays

\* C19: a manager built with new() has the delay 500; with_restart_delay(d)
\* sets the delay to d and leaves the runner as it is; no operation changes
\* the delay, and every wait of a restart is the delay the manager has.
C19_DelayStable ==
    /\ restart_delay_ms = 500
    /\ [](\A d \in Delays :
            with_restart_delay(ExplorerManager_new(runner), d) =
                [runner |-> runner, restart_delay_ms |-> d])
    /\ [][DelayKept]_vars

C19_Witness ==
    /\ last.op = "restart_silent"
    /\ restart_delay_ms = 1000
    /\ last.delay = 1000
    /\ last.ctx.runner.sleep_calls = <<1000, 1000>>
    /\ ~last.ret.success

\* ------------------------------------------------------ claims on the CLI

\* The run main() made: the boolean run_with_runner returned and its context.
CliRun == cli_exit.run

\* C7: on an unsupported platform the dispatcher refuses before it
\* dispatches: it writes the platform error, which names the platform, to the
\* error stream, exits with 1 and calls no primitive.
C7_CliPlatformGate ==
    (cli_pc = "exited" /\ ~is_windows(target_os)) =>
        /\ CliRun.ctx.calls = <<>>
        /\ cli_exit.exit_code = 1
        /\ \E i \in 1..Len(CliRun.ctx.err) :
              CliRun.ctx.err[i].text = check_platform(target_os).err

\* C8: the exit code is 0 exactly when the dispatched operation returned
\* true, and 1 when it failed and whenever the platform is unsupported; there
\* is no other exit code.
C8_CliExitCode ==
    cli_pc = "exited" =>
        /\ cli_exit.exit_code \in {0, 1}
        /\ cli_exit.exit_code = 0 <=> CliRun.ret
        /\ ~is_windows(target_os) => cli_exit.exit_code = 1

\* C9: with no subcommand the dispatcher does what it does for restart, the
\* same primitive calls with the same answers and the same boolean, whatever
\* the primitives answer; kill dispatches only kill (one kill_process, nothing
\* else) and start only start (one start_process, nothing else).
C9_DefaultIsRestart ==
    LET r == SystemRunner(cli_env)
        killed == SystemProcessRunner_kill_process(cli_env.taskkill, ExplorerExe)
        started == SystemProcessRunner_start_process(cli_env.spawn, ExplorerExe)
    IN  /\ cli_pc # "none" => run_with_runner("None", r) = run_with_runner("Restart", r)
        /\ (cli_pc = "exited" /\ cli_command = "None") =>
              /\ CliRun = run_with_runner("Restart", r)
              /\ CliRun.ctx.calls[1] = ProcessCall("kill_process", ExplorerExe, killed)
              /\ killed.success =>
                    /\ CliRun.ctx.calls = <<ProcessCall("kill_process", ExplorerExe, killed),
                                            SleepCall(RESTART_DELAY_MS),
                                            ProcessCall("start_process", ExplorerExe, started)>>
                    /\ CliRun.ret = started.success
        /\ (cli_pc = "exited" /\ cli_command = "Kill") =>
              /\ CliRun.ctx.calls = <<ProcessCall("kill_process", ExplorerExe, killed)>>
              /\ CliRun.ret = killed.success
        /\ (cli_pc = "exited" /\ cli_command = "Start") =>
              /\ CliRun.ctx.calls = <<ProcessCall("start_process", ExplorerExe, started)>>
              /\ CliRun.ret = started.success

C9_Witness ==
    /\ cli_pc = "exited"
    /\ cli_command = "None"
    /\ Len(CliRun.ctx.calls) = 3
    /\ CliRun.ret = TRUE
    /\ cli_exit.exit_code = 0

\* ----------------------------------------------- claims on the MCP server

\* The invocations that have the lock of their server and are running their
\* operation: from the lock's acquisition to the tool's return.
Executing == { i \in DOMAIN inv : inv[i].pc \in {"kill", "sleep", "start"} }

\* The invocations a client has called.
Called == { i \in DOMAIN inv : inv[i].pc # "idle" }

\* C10: all the tool invocations of one server process, whatever sessions
\* they arrive on, go through one manager behind one lock, so at most one of
\* them is running its operation at any time.
C10_SystemWideMutualExclusion ==
    /\ \A i, j \in Called : ServerOf(inv[i].session) = ServerOf(inv[j].session)
    /\ Cardinality(Executing) <= 1

\* The restarts that are between their kill_process and their start_process:
\* at their wait, or after it and before the launch.
MidRestart ==
    { i \in DOMAIN inv : inv[i].tool = "restart_explorer" /\ inv[i].pc \in {"sleep", "start"} }

\* What holds of a restart and the other invocations of its own server
\* instance: the restart has that instance's lock from before its
\* kill_process to its return, and every other invocation of the instance has
\* returned, was dropped, or is queued for the lock.
RestartExcludesOwnInstance ==
    \A i \in DOMAIN inv :
        (inv[i].tool = "restart_explorer" /\ inv[i].pc \in {"kill", "sleep", "start"}) =>
            /\ mutex[ServerOf(inv[i].session)].holder = i
            /\ \A j \in Called \ {i} :
                  ServerOf(inv[j].session) = ServerOf(inv[i].session) =>
                      /\ inv[j].pc \notin {"kill", "sleep", "start"}
                      /\ inv[j].pc = "waiting" =>
                            \E k \in 1..Len(mutex[ServerOf(inv[j].session)].waiters) :
                                mutex[ServerOf(inv[j].session)].waiters[k] = j

\* C11: a restart_explorer has the manager lock from before its kill_process
\* until after its start_process, its wait included, so between the two no
\* other invocation of the server runs a primitive: whatever was called and
\* has not returned is queued for the lock.
C11_RestartHoldsLockAcrossWait ==
    \A i \in MidRestart :
        /\ mutex[ServerOf(inv[i].session)].holder = i
        /\ \A j \in Called \ {i} : inv[j].pc \notin {"kill", "sleep", "start"}

\* C12: every tool runs check_platform first.  On a platform that is not
\* Windows the response is an error that carries the platform message, no lock
\* is ever taken or queued for, and no primitive is called; on Windows the tool
\* takes the lock and calls its silent operation: the first primitive called is
\* kill_process for kill_explorer and restart_explorer, start_process for
\* start_explorer, and it is called with the lock held.
C12_ProtocolPlatformGate ==
    /\ ~is_windows(target_os) =>
          /\ \A s \in DOMAIN mutex : mutex[s].holder = 0 /\ mutex[s].waiters = <<>>
          /\ \A i \in Called :
                /\ inv[i].pc = "done"
                /\ inv[i].calls = <<>>
                /\ inv[i].response.kind = "error"
                /\ inv[i].response.text = check_platform(target_os).err
                /\ inv[i].response.text # ""
    /\ is_windows(target_os) =>
          \A i \in Called :
              /\ i \in Executing => mutex[ServerOf(inv[i].session)].holder = i
              /\ inv[i].calls # <<>> =>
                    inv[i].calls[1].prim =
                        (IF inv[i].tool = "start_explorer" THEN "start_process" ELSE "kill_process")
              /\ inv[i].pc = "done" =>
                    /\ inv[i].calls # <<>>
                    /\ inv[i].response.text # check_platform("linux").err

C12_Witness ==
    /\ target_os = "linux"
    /\ inv[2].pc = "done"
    /\ inv[2].tool = "restart_explorer"
    /\ inv[2].calls = <<>>
    /\ inv[2].response =
          [kind |-> "error",
           text |-> "stuckbar is a Windows-only tool.\nCurrent platform 'linux' is not supported.\nThis tool restarts explorer.exe which only exists on Windows."]

\* The silent operation a tool calls on the manager once it has the lock.
SilentOperation(tool, c, delay_ms) ==
    CASE tool = "kill_explorer"    -> kill_silent(c)
      [] tool = "start_explorer"   -> start_silent(c)
      [] tool = "restart_explorer" -> restart_silent(c, delay_ms)

\* What the calls of one primitive in a log answered, in order.
AnswersOf(calls, prim) ==
    LET IsPrim(call) == call.prim = prim
        sel == SelectSeq(calls, IsPrim)
    IN  [k \in 1..Len(sel) |-> sel[k].res]

\* A runner that answers what the primitives of invocation i answered.
Replayed(i) ==
    [kind |-> "mock",
     kill_results |-> AnswersOf(inv[i].calls, "kill_process"),
     start_results |-> AnswersOf(inv[i].calls, "start_process"),
     sleep_calls |-> <<>>]

\* C13: on Windows a tool's response is a success payload exactly when the
\* result of its silent operation has success true and an error payload
\* otherwise, its text the result's message as it is; a tool has no other
\* kind of return.
C13_ProtocolResultMapping ==
    \A i \in Called :
        (is_windows(target_os) /\ inv[i].pc = "done") =>
            LET op == SilentOperation(inv[i].tool, Context(Replayed(i)),
                                      mutex[ServerOf(inv[i].session)].restart_delay_ms)
            IN  /\ op.ctx.calls = inv[i].calls
                /\ inv[i].response.kind \in {"success", "error"}
                /\ inv[i].response.kind = "success" <=> op.ret.success
                /\ inv[i].response.text = op.ret.message

C13_Witness ==
    /\ target_os = "windows"
    /\ inv[1].pc = "done"
    /\ inv[1].tool = "restart_explorer"
    /\ Len(inv[1].calls) = 3
    /\ inv[1].response = [kind |-> "error",
                          text |-> "Error starting explorer.exe: program not found"]
    /\ inv[2].pc = "done"
    /\ inv[2].response = [kind |-> "success",
                          text |-> "Successfully terminated explorer.exe"]

\* The invocations queued for the lock of server instance s.
Queued(s) == { mutex[s].waiters[k] : k \in 1..Len(mutex[s].waiters) }

InFlight == { i \in DOMAIN inv : inv[i].pc \in {"waiting", "kill", "sleep", "start"} }

\* With no invocation in flight every lock is free and its queue empty.
LockFreeWhenIdle ==
    InFlight = {} =>
        \A s \in DOMAIN mutex : mutex[s].holder = 0 /\ mutex[s].waiters = <<>>

\* A lock that is held, or queued for, is held by an invocation in flight, and
\* the one that holds it has a step to take.
NoDeadlock ==
    \A s \in DOMAIN mutex :
        /\ mutex[s].waiters # <<>> => mutex[s].holder # 0
        /\ mutex[s].holder # 0 =>
              /\ mutex[s].holder \in InFlight
              /\ ENABLED (\/ Acquired(mutex[s].holder)
                          \/ KillStep(mutex[s].holder)
                          \/ SleepStep(mutex[s].holder)
                          \/ StartStep(mutex[s].holder))

\* C20: when every primitive call returns, every path of a tool gives the lock
\* up: with no invocation in flight every lock is free, a held lock is held by
\* an invocation that can go on, an invocation that waits for the lock gets it
\* and returns its response unless it is cancelled while it waits, whatever is
\* queued before it, and an invocation that has the lock returns.
C20_ProtocolProgress ==
    /\ [](LockFreeWhenIdle /\ NoDeadlock)
    /\ \A i \in Invocations :
          /\ (inv[i].pc = "waiting") ~> (inv[i].pc = "done" \/ inv[i].cancelled)
          /\ (inv[i].pc \in {"kill", "sleep", "start"}) ~> (inv[i].pc = "done")

\* A restart is in its wait with the lock, and two more invocations are queued
\* for it, the third behind the second; nobody cancelled.
C20_Witness ==
    /\ inv[1].tool = "restart_explorer" /\ inv[1].pc = "sleep"
    /\ mutex[ServerOf(inv[1].session)].holder = 1
    /\ mutex[ServerOf(inv[1].session)].waiters = <<2, 3>>
    /\ inv[2].pc = "waiting" /\ inv[3].pc = "waiting"
    /\ \A i \in 1..3 : ~inv[i].cancelled

=============================================================================
